---- MODULE Spec2Model ----
(***************************************************************************)
(* Two batch programs of the repository, each modelled as a state machine: *)
(*                                                                         *)
(*   geodatabase_catalog.py  InvSpec  walk, list, describe, sort, export   *)
(*   layer_metadata.py       RepSpec  glob, extract, write twice           *)
(*                                                                         *)
(* The external library and the file system are the environment: what a    *)
(* walk yields, what a geodatabase holds, which query raises and what the  *)
(* clock reads are chosen with \E from bounded sets.  Names are integers   *)
(* (their order stands for string order), paths are tuples of names, an    *)
(* absent value (Python None) is the empty tuple and a present value x is  *)
(* the one-element tuple <<x>>.                                            *)
(***************************************************************************)
EXTENDS Integers, Sequences, FiniteSets, TLC

VARIABLES
    \* ---- geodatabase_catalog.py
    ipc,        \* position of main / inventory_geodatabases
    workspace,  \* arcpy.env.workspace
    gdb,        \* the geodatabase being scanned, as far as its listings showed
    fdsTodo,    \* feature datasets the loop of line 140 has still to visit
    records,    \* the list `records`
    excel,      \* the file OUTPUT_EXCEL
    console,    \* what print has written
    walked,     \* directory entries os.walk has yielded so far
    items,      \* entries of the tree seen and queries that raised, so far
    tree,       \* history: the geodatabases found, with what they hold
    calls,      \* history: every listing call with the workspace it ran in
    described,  \* history: every arcpy.Describe call with what the library did
    \* ---- layer_metadata.py
    rpc,        \* position of main
    lyrx_files, \* what glob.glob returned
    seen,       \* history: the files the loop has processed, as they behaved
    idx,        \* index of the next file of the loop of line 17
    data_list,  \* the list `data_list`
    contents,   \* the list `contents`
    primary,    \* the file output_file
    admin,      \* the file admin_output_file
    clock,      \* the last reading of datetime.now(), in seconds
    rconsole    \* what print has written

invVars == <<ipc, workspace, gdb, fdsTodo, records, excel, console, walked,
             items, tree, calls, described>>
repVars == <<rpc, lyrx_files, seen, idx, data_list, contents, primary, admin,
             clock, rconsole>>
vars == <<invVars, repVars>>

\* ------------------------------------------------------------------ bounds

\* Directory entries, feature datasets and datasets in the walked tree, and
\* queries that raise, in one inventory run.
MaxItems == 6

\* Names a feature dataset and a geodatabase folder of the walk can have.
FdsNames == {1, 2}
GdbNames == {1}

\* ----------------------------------------------------------------- helpers

None == <<>>
Some(x) == <<x>>

Range(s) == {s[i] : i \in 1..Len(s)}

RECURSIVE Flatten(_)
Flatten(ss) == IF ss = <<>> THEN <<>> ELSE Head(ss) \o Flatten(Tail(ss))

\* os.path.join
Join(path, name) == Append(path, name)

\* ------------------------------------------- the environment of the inventory

\* The listings of at most k datasets: the i-th dataset listed is named i.
Listings(k) == {[i \in 1..n |-> i] : n \in 0..(IF k < 0 THEN 0 ELSE k)}

\* The names ListDatasets can yield for one geodatabase: at most k feature
\* datasets, with distinct names.
RECURSIVE FdsSeqs(_, _)
FdsSeqs(k, avail) ==
    {<<>>} \cup
    (IF k < 1 THEN {}
     ELSE UNION {{<<n>> \o r : r \in FdsSeqs(k - 1, avail \ {n})} : n \in avail})

\* Entries and raising queries the run still has room for.
Room == MaxItems - items

NoGdb == [name |-> 0, path |-> None, modified |-> None,
          top |-> <<>>, fds |-> <<>>, tables |-> <<>>, rasters |-> <<>>]

\* What os.path.getmtime does for a geodatabase folder.
MTimeOutcomes == {"ok", "raises"}

\* format_timestamp: a formatted string, or None when the conversion raises.
format_timestamp(timestamp) ==
    IF timestamp = "ok" THEN Some("YYYY-MM-DD hh:mm:ss") ELSE None

\* The listing calls read the current workspace.  A workspace that is no
\* geodatabase or feature dataset yields nothing (None, which `or []`
\* turns into the empty list).
FdsAt(ws, g) == {i \in 1..Len(g.fds) : Join(g.path, g.fds[i].name) = ws}

ListFeatureClasses(ws, g) ==
    IF ws = None THEN <<>>
    ELSE IF ws = g.path THEN g.top
    ELSE IF FdsAt(ws, g) # {} THEN g.fds[CHOOSE i \in FdsAt(ws, g) : TRUE].fcs
    ELSE <<>>

ListDatasets(ws, g) ==
    IF ws # None /\ ws = g.path THEN [i \in 1..Len(g.fds) |-> g.fds[i].name]
    ELSE <<>>

ListTables(ws, g) == IF ws # None /\ ws = g.path THEN g.tables ELSE <<>>

ListRasters(ws, g) == IF ws # None /\ ws = g.path THEN g.rasters ELSE <<>>

\* What the library does for one dataset: whether arcpy.Describe, GetCount
\* and the spatialReference property raise.
Raising == {"ok", "raises"}

OutcomesOf(kind) ==
    {[describe |-> "raises", count |-> "ok", sr |-> "ok"]} \cup
    {[describe |-> "ok", count |-> c, sr |-> s] :
        c \in (IF kind \in {"fc", "table"} THEN Raising ELSE {"ok"}),
        s \in (IF kind \in {"fc", "raster"} THEN Raising ELSE {"ok"})}

Cost(o) == (IF o.describe = "raises" THEN 1 ELSE 0)
           + (IF o.count = "raises" THEN 1 ELSE 0)
           + (IF o.sr = "raises" THEN 1 ELSE 0)

AllOk(n) == [i \in 1..n |-> [describe |-> "ok", count |-> "ok", sr |-> "ok"]]

\* The outcomes of the n datasets of one listing, with at most b raising
\* queries; nothing is asked of the datasets after a Describe that raises.
RECURSIVE OutcomeSeqs(_, _, _)
OutcomeSeqs(kind, n, b) ==
    IF n = 0 THEN {<<>>}
    ELSE UNION {{<<o>> \o r :
                   r \in (IF o.describe = "raises" THEN {AllOk(n - 1)}
                          ELSE OutcomeSeqs(kind, n - 1, b - Cost(o)))} :
                o \in {x \in OutcomesOf(kind) : Cost(x) <= b}}

\* The object arcpy.Describe returns for a dataset of a listing.
Describe(kind, name) ==
    [name |-> name,
     datasetType |-> CASE kind = "fc" -> "FeatureClass"
                       [] kind = "table" -> "Table"
                       [] OTHER -> "RasterDataset",
     shapeType |-> IF kind = "fc" THEN Some("Polygon") ELSE None,
     hasSpatialReference |-> kind \in {"fc", "raster"}]

\* int(arcpy.management.GetCount(dataset_path)[0]) when it does not raise.
GetCount(dataset_path) == dataset_path[Len(dataset_path)]

\* ------------------------------------------------- geodatabase_catalog.py

\* Lines 88-99: the dictionary describe_dataset returns.
DatasetRow(gdb_name, gdb_path, gdb_last_modified, dataset_path, feature_dataset, desc, geometry_type, feature_count, spatial_reference) ==
    [GDB_Name |-> gdb_name,
     GDB_Path |-> gdb_path,
     GDB_Last_Modified |-> gdb_last_modified,
     Feature_Dataset |-> feature_dataset,
     Dataset_Name |-> desc.name,
     Dataset_Path |-> dataset_path,
     Dataset_Type |-> desc.datasetType,
     Geometry_Type |-> geometry_type,
     Feature_Count |-> feature_count,
     Spatial_Reference |-> spatial_reference]

\* describe_dataset without the try around GetCount: a row count that
\* raises leaves the function as a Describe that raises does.
describe_dataset_count_uncaught(gdb_name, gdb_path, gdb_last_modified, dataset_path, feature_dataset, kind, o) ==
    LET desc == Describe(kind, dataset_path[Len(dataset_path)])
        counted == desc.datasetType \in {"FeatureClass", "Table"}
    IN IF o.describe = "raises" \/ (counted /\ o.count = "raises")
       THEN [raised |-> TRUE, rec |-> None]
       ELSE [raised |-> FALSE,
             rec |-> DatasetRow(gdb_name, gdb_path, gdb_last_modified,
                        dataset_path, feature_dataset, desc,
                        IF desc.datasetType = "FeatureClass"
                        THEN desc.shapeType ELSE None,
                        IF counted THEN Some(GetCount(dataset_path)) ELSE None,
                        IF desc.hasSpatialReference /\ o.sr = "ok"
                        THEN Some("WGS 1984") ELSE None)]

\* describe_dataset.  kind and o are the library's side: the listing the
\* dataset came from and which of its queries raise.  arcpy.Describe is
\* called outside any try, so its exception leaves the function; GetCount
\* and spatialReference are each inside a try that defaults to None.
describe_dataset(gdb_name, gdb_path, gdb_last_modified, dataset_path, feature_dataset, kind, o) ==
    IF o.describe = "raises" THEN [raised |-> TRUE, rec |-> None]
    ELSE
    LET desc == Describe(kind, dataset_path[Len(dataset_path)])
        dataset_type == desc.datasetType
        geometry_type ==
            IF dataset_type = "FeatureClass" THEN desc.shapeType ELSE None
        feature_count ==
            IF dataset_type \in {"FeatureClass", "Table"}
            THEN (IF o.count = "raises" THEN None
                  ELSE Some(GetCount(dataset_path)))
            ELSE None
        spatial_reference ==
            IF desc.hasSpatialReference
            THEN (IF o.sr = "raises" THEN None ELSE Some("WGS 1984"))
            ELSE None
    IN [raised |-> FALSE,
        rec |-> DatasetRow(gdb_name, gdb_path, gdb_last_modified,
                           dataset_path, feature_dataset, desc, geometry_type,
                           feature_count, spatial_reference)]

\* One `for ... in arcpy.List...() or []: records.append(describe_dataset(..))`
\* loop: the records appended, whether a call raised, and the calls made.
RECURSIVE DescribeEach(_, _, _, _, _, _)
DescribeEach(g, base, feature_dataset, names, kind, os) ==
    IF names = <<>> THEN [recs |-> <<>>, raised |-> FALSE, log |-> <<>>]
    ELSE
    LET dataset_path == Join(base, Head(names))
        d == describe_dataset(g.name, g.path, g.modified, dataset_path,
                              feature_dataset, kind, Head(os))
        entry == [path |-> dataset_path, kind |-> kind, o |-> Head(os)]
    IN IF d.raised THEN [recs |-> <<>>, raised |-> TRUE, log |-> <<entry>>]
       ELSE LET rest == DescribeEach(g, base, feature_dataset, Tail(names),
                                     kind, Tail(os))
            IN [recs |-> <<d.rec>> \o rest.recs,
                raised |-> rest.raised,
                log |-> <<entry>> \o rest.log]

RECURSIVE LogCost(_)
LogCost(log) == IF log = <<>> THEN 0 ELSE Cost(Head(log).o) + LogCost(Tail(log))

Call(fn, ws, where) == [fn |-> fn, ws |-> ws, at |-> where]

Msg(text, arg) == [msg |-> text, arg |-> arg]

InvUnchanged == UNCHANGED repVars

\* main, line 191, and the call of inventory_geodatabases, line 107.
MainStart ==
    /\ ipc = "start"
    /\ ipc' = "walk"
    /\ console' = Append(console, Msg("Starting geodatabase inventory for:", None))
    /\ records' = <<>>
    /\ UNCHANGED <<workspace, gdb, fdsTodo, excel, walked, items, tree, calls, described>>
    /\ InvUnchanged

\* Lines 109-112: a directory entry whose name does not end in .gdb.
SkipDir ==
    /\ ipc = "walk"
    /\ items < MaxItems
    /\ walked' = walked + 1
    /\ items' = items + 1
    /\ UNCHANGED <<ipc, workspace, gdb, fdsTodo, records, excel, console,
                   tree, calls, described>>
    /\ InvUnchanged

\* Lines 109-126: a directory entry whose name ends in .gdb; its path, its
\* modification time and the workspace set to it.
EnterGdb ==
    /\ ipc = "walk"
    /\ items < MaxItems
    /\ \E dirname \in GdbNames,
          mt \in {m \in MTimeOutcomes : m = "ok" \/ Room > 1} :
        LET gdb_path == Join(<<walked + 1>>, dirname)
            g == [NoGdb EXCEPT !.name = dirname, !.path = gdb_path,
                               !.modified = format_timestamp(mt)]
        IN /\ gdb' = g
           /\ tree' = Append(tree, g)
           /\ items' = items + 1 + (IF mt = "raises" THEN 1 ELSE 0)
           /\ workspace' = gdb_path
           /\ console' = Append(console, Msg("Scanning geodatabase:", gdb_path))
    /\ walked' = walked + 1
    /\ ipc' = "top"
    /\ UNCHANGED <<fdsTodo, records, excel, calls, described>>
    /\ InvUnchanged

\* The file system turns out to hold g where the scan is: n entries and
\* raising queries more than were known.
Holds(g, n) ==
    /\ gdb' = g
    /\ tree' = [tree EXCEPT ![Len(tree)] = g]
    /\ items' = items + n

\* Lines 128-140: the top-level feature classes, then the call that lists
\* the feature datasets.
ScanTop ==
    /\ ipc = "top"
    /\ \E t \in Listings(Room) : \E f \in FdsSeqs(Room - Len(t), FdsNames) :
       LET g == [gdb EXCEPT !.top = t,
                            !.fds = [i \in 1..Len(f) |->
                                       [name |-> f[i], fcs |-> <<>>]]]
           names == ListFeatureClasses(workspace, g)
       IN \E os \in OutcomeSeqs("fc", Len(names), Room - Len(t) - Len(f)) :
          LET res == DescribeEach(g, g.path, None, names, "fc", os)
          IN /\ Holds(g, Len(t) + Len(f) + LogCost(res.log))
             /\ records' = records \o res.recs
             /\ described' = described \o res.log
             /\ IF res.raised
                THEN /\ ipc' = "raised"
                     /\ calls' = Append(calls,
                            Call("ListFeatureClasses", workspace, g.path))
                     /\ UNCHANGED fdsTodo
                ELSE /\ ipc' = "fds"
                     /\ calls' = calls \o
                            <<Call("ListFeatureClasses", workspace, g.path),
                              Call("ListDatasets", workspace, g.path)>>
                     /\ fdsTodo' = ListDatasets(workspace, g)
    /\ UNCHANGED <<workspace, excel, console, walked>>
    /\ InvUnchanged

\* Lines 141-142: the next feature dataset; the workspace is set to it.
EnterFds ==
    /\ ipc = "fds"
    /\ fdsTodo # <<>>
    /\ workspace' = Join(gdb.path, Head(fdsTodo))
    /\ ipc' = "nested"
    /\ UNCHANGED <<gdb, fdsTodo, records, excel, console, walked, items,
                   tree, calls, described>>
    /\ InvUnchanged

\* Line 156 left out: the workspace stays at the feature dataset.
WorkspaceNotReset(g) == workspace

\* The workspace after the feature classes of a feature dataset, line 156.
WorkspaceAfterFds(g) == g.path

\* Lines 144-156: the feature classes of the feature dataset, then the
\* workspace reset to the geodatabase.
ScanNested ==
    /\ ipc = "nested"
    /\ \E s \in Listings(Room) :
       LET fds == Head(fdsTodo)
           fds_path == Join(gdb.path, fds)
           g == [gdb EXCEPT !.fds = [i \in 1..Len(gdb.fds) |->
                                       IF gdb.fds[i].name = fds
                                       THEN [name |-> fds, fcs |-> s]
                                       ELSE gdb.fds[i]]]
           names == ListFeatureClasses(workspace, g)
       IN \E os \in OutcomeSeqs("fc", Len(names), Room - Len(s)) :
          LET res == DescribeEach(g, fds_path, Some(fds), names, "fc", os)
          IN /\ Holds(g, Len(s) + LogCost(res.log))
             /\ records' = records \o res.recs
             /\ described' = described \o res.log
             /\ calls' = Append(calls,
                            Call("ListFeatureClasses", workspace, fds_path))
             /\ IF res.raised
                THEN /\ ipc' = "raised"
                     /\ UNCHANGED <<workspace, fdsTodo>>
                ELSE /\ ipc' = "fds"
                     /\ workspace' = WorkspaceAfterFds(g)
                     /\ fdsTodo' = Tail(fdsTodo)
    /\ UNCHANGED <<excel, console, walked>>
    /\ InvUnchanged

\* Lines 158-167: the standalone tables.
ScanTables ==
    /\ ipc = "fds"
    /\ fdsTodo = <<>>
    /\ \E tb \in Listings(Room) :
       LET g == [gdb EXCEPT !.tables = tb]
           names == ListTables(workspace, g)
       IN \E os \in OutcomeSeqs("table", Len(names), Room - Len(tb)) :
          LET res == DescribeEach(g, g.path, None, names, "table", os)
          IN /\ Holds(g, Len(tb) + LogCost(res.log))
             /\ records' = records \o res.recs
             /\ described' = described \o res.log
             /\ ipc' = IF res.raised THEN "raised" ELSE "rasters"
    /\ calls' = Append(calls, Call("ListTables", workspace, gdb.path))
    /\ UNCHANGED <<workspace, fdsTodo, excel, console, walked>>
    /\ InvUnchanged

\* Lines 169-181: the rasters, then the workspace cleared.
ScanRasters ==
    /\ ipc = "rasters"
    /\ \E r \in Listings(Room) :
       LET g == [gdb EXCEPT !.rasters = r]
           names == ListRasters(workspace, g)
       IN \E os \in OutcomeSeqs("raster", Len(names), Room - Len(r)) :
          LET res == DescribeEach(g, g.path, None, names, "raster", os)
          IN /\ Holds(g, Len(r) + LogCost(res.log))
             /\ records' = records \o res.recs
             /\ described' = described \o res.log
             /\ IF res.raised
                THEN /\ ipc' = "raised"
                     /\ UNCHANGED workspace
                ELSE /\ ipc' = "walk"
                     /\ workspace' = None
    /\ calls' = Append(calls, Call("ListRasters", workspace, gdb.path))
    /\ UNCHANGED <<fdsTodo, excel, console, walked>>
    /\ InvUnchanged

\* Line 183: os.walk is exhausted and inventory_geodatabases returns.
WalkEnd ==
    /\ ipc = "walk"
    /\ ipc' = "returned"
    /\ UNCHANGED <<workspace, gdb, fdsTodo, records, excel, console, walked,
                   items, tree, calls, described>>
    /\ InvUnchanged

\* The order df.sort_values gives one key column: ascending, and a missing
\* value (None) after every present one (pandas' default na_position="last").
ColumnBefore(x, y) ==
    \/ x # None /\ y = None
    \/ x # None /\ y # None /\ x[1] < y[1]

\* by=["GDB_Name", "Feature_Dataset", "Dataset_Name"], lines 201-204.
RowBefore(a, b) ==
    \/ a.GDB_Name < b.GDB_Name
    \/ /\ a.GDB_Name = b.GDB_Name
       /\ \/ ColumnBefore(a.Feature_Dataset, b.Feature_Dataset)
          \/ /\ a.Feature_Dataset = b.Feature_Dataset
             /\ a.Dataset_Name < b.Dataset_Name

\* A row placed after the rows it does not precede: the sort is stable.
RECURSIVE InsertRow(_, _)
InsertRow(rows, r) ==
    IF rows = <<>> THEN <<r>>
    ELSE IF RowBefore(r, Head(rows)) THEN <<r>> \o rows
    ELSE <<Head(rows)>> \o InsertRow(Tail(rows), r)

RECURSIVE SortRows(_, _)
SortRows(done, todo) ==
    IF todo = <<>> THEN done
    ELSE SortRows(InsertRow(done, Head(todo)), Tail(todo))

\* sort_values without inplace=True: its result is dropped and the frame
\* keeps the order of the records.
sort_values_dropped(recs) == recs

\* df.sort_values(by=[...], inplace=True)
sort_values(recs) == SortRows(<<>>, recs)

NotWritten == [written |-> FALSE, rows |-> <<>>]

\* main without the `if not records` of line 195: it writes whatever it got.
main_output_unguarded(recs) ==
    [excel |-> [written |-> TRUE, rows |-> sort_values(recs)],
     msgs |-> <<Msg("Writing inventory to Excel:", None),
                Msg("Inventory complete.", None)>>]

\* main after inventory_geodatabases has returned, lines 195-210: the file
\* it writes and what it prints.
main_output(recs) ==
    IF recs = <<>>
    THEN [excel |-> NotWritten,
          msgs |-> <<Msg("No datasets found.", None)>>]
    ELSE [excel |-> [written |-> TRUE, rows |-> sort_values(recs)],
          msgs |-> <<Msg("Writing inventory to Excel:", None),
                     Msg("Inventory complete.", None)>>]

MainFinish ==
    /\ ipc = "returned"
    /\ ipc' = "done"
    /\ excel' = main_output(records).excel
    /\ console' = console \o main_output(records).msgs
    /\ UNCHANGED <<workspace, gdb, fdsTodo, records, walked, items, tree, calls, described>>
    /\ InvUnchanged

InvStart ==
    /\ ipc = "start"
    /\ workspace = None
    /\ gdb = NoGdb
    /\ fdsTodo = <<>>
    /\ records = <<>>
    /\ excel = NotWritten
    /\ console = <<>>
    /\ walked = 0
    /\ items = 0
    /\ tree = <<>>
    /\ calls = <<>>
    /\ described = <<>>

\* layer_metadata.py is not running.
RepIdle ==
    /\ rpc = "idle"
    /\ lyrx_files = <<>>
    /\ seen = <<>>
    /\ idx = 1
    /\ data_list = <<>>
    /\ contents = <<>>
    /\ primary = [exists |-> FALSE, text |-> <<>>]
    /\ admin = [exists |-> FALSE, text |-> <<>>]
    /\ clock = 0
    /\ rconsole = <<>>

InvInit == InvStart /\ RepIdle

InvNext ==
    \/ MainStart
    \/ SkipDir
    \/ EnterGdb
    \/ ScanTop
    \/ EnterFds
    \/ ScanNested
    \/ ScanTables
    \/ ScanRasters
    \/ WalkEnd
    \/ MainFinish

InvSpec == InvInit /\ [][InvNext]_vars

\* ------------------------------------------------------- the sort, alone

\* Rows of the list main sorts.
MaxRows == 3

SortGdbNames == {1, 2}
SortFdsNames == {None, Some(1), Some(2)}
SortDatasetNames == {1, 2}

\* The record describe_dataset builds for the i-th dataset found, a feature
\* class named n of the geodatabase folder named g in directory i, inside
\* feature dataset f or at the top level.
FoundRecord(i, g, f, n) ==
    LET gdb_path == Join(<<i>>, g)
        base == IF f = None THEN gdb_path ELSE Join(gdb_path, f[1])
    IN describe_dataset(g, gdb_path, format_timestamp("ok"), Join(base, n), f,
                        "fc", [describe |-> "ok", count |-> "ok", sr |-> "ok"]).rec

SortKeys == SortGdbNames \X SortFdsNames \X SortDatasetNames

\* Line 193 as a whole: inventory_geodatabases runs and returns some list
\* of records; the history of the scan is not kept.
InventoryReturns ==
    /\ ipc = "walk"
    /\ ipc' = "returned"
    /\ \E len \in 0..MaxRows : \E k \in [1..len -> SortKeys] :
          records' = [i \in 1..len |-> FoundRecord(i, k[i][1], k[i][2], k[i][3])]
    /\ UNCHANGED <<workspace, gdb, fdsTodo, excel, console, walked, items,
                   tree, calls, described>>
    /\ InvUnchanged

SortInit == InvInit

SortNext ==
    \/ MainStart
    \/ InventoryReturns
    \/ MainFinish

SortSpec == SortInit /\ [][SortNext]_vars

\* ------------------------------------------------------ layer_metadata.py

\* .lyrx files glob.glob returns.
MaxFiles == 2
\* Layers in all the files together.
MaxLayers == 1
\* Seconds the clock can advance during the run.
MaxClock == 1

\* A string is a sequence of characters; a character stands for the text of
\* one line, with the file (and layer) it is about.
Ch(text, f, l) == [c |-> text, f |-> f, l |-> l]
NL == Ch("\n", 0, 0)

RECURSIVE SeqsOfLen(_, _)
SeqsOfLen(S, n) ==
    IF n <= 0 THEN {<<>>}
    ELSE {Append(s, x) : s \in SeqsOfLen(S, n - 1), x \in S}

SeqsUpTo(S, n) == UNION {SeqsOfLen(S, i) : i \in 0..n}

\* How the library behaves for one layer of a layer file: it raises while
\* the layer is asked for DATASOURCE, its name or its source; it has no data
\* source; or it has one, with its metadata on disk or not and each of the
\* three sections readable or raising.
LayerVariants ==
    {[kind |-> k, src |-> FALSE, fields |-> "ok", props |-> "ok", sym |-> "ok"] :
        k \in {"raises", "nosource"}}
    \cup
    {[kind |-> "source", src |-> s, fields |-> a, props |-> b, sym |-> c] :
        s \in BOOLEAN, a \in Raising, b \in Raising, c \in Raising}

\* How one .lyrx file behaves: which call outside the inner try blocks
\* raises first (arcpy.mp.LayerFile, os.stat, listLayers), and its layers.
FileVariants(k) ==
    {[fail |-> x, layers |-> <<>>] : x \in {"open", "stat", "listLayers"}}
    \cup {[fail |-> "none", layers |-> ls] : ls \in SeqsUpTo(LayerVariants, k)}

\* The lists glob.glob can return; the i-th file has path i.
GlobResults == {[i \in 1..n |-> i] : n \in 0..MaxFiles}

\* Layers in the files processed so far.
RECURSIVE LayersIn(_)
LayersIn(fs) == IF fs = <<>> THEN 0 ELSE Len(Head(fs).layers) + LayersIn(Tail(fs))

contents_header == <<Ch("### Table of Contents", 0, 0), NL>>
file_info(f) == <<Ch("### File Information:", f, 0), NL>>
toc_entry(f) == <<Ch("- file_path", f, 0), NL>>
layer_info(f, l) == <<Ch("## Layer:", f, l), NL>>
source_info(f, l) == <<Ch("Data Source Metadata:", f, l), NL>>

\* A section of a layer, lines 68-131: its text, or the inline error string
\* of its except clause.
Section(outcome, title, error, f, l) ==
    IF outcome = "ok" THEN <<Ch(title, f, l), NL>> ELSE <<Ch(error, f, l), NL>>

\* Lines 44-131: the blocks one layer with a data source appends.
layer_blocks(f, l, layer) ==
    <<layer_info(f, l)>>
    \o (IF layer.src THEN <<source_info(f, l)>> ELSE <<>>)
    \o <<Section(layer.fields, "### Fields:", "Error reading fields:", f, l),
         Section(layer.props, "### Layer Properties:",
                 "Error reading layer properties:", f, l),
         Section(layer.sym, "### Symbology:", "Error reading symbology:", f, l)>>

\* Lines 42-131: the loop over the layers of one file.
RECURSIVE layers_blocks(_, _, _)
layers_blocks(f, layers, l) ==
    IF l > Len(layers) THEN [blocks |-> <<>>, raised |-> FALSE]
    ELSE IF layers[l].kind = "raises" THEN [blocks |-> <<>>, raised |-> TRUE]
    ELSE LET rest == layers_blocks(f, layers, l + 1)
             mine == IF layers[l].kind = "source"
                     THEN layer_blocks(f, l, layers[l]) ELSE <<>>
         IN [blocks |-> mine \o rest.blocks, raised |-> rest.raised]

\* The loop body with the table-of-contents entry added before the file is
\* opened: a file that fails to open is listed all the same.
file_blocks_listed_first(file) ==
    IF file.fail \in {"open", "stat"}
    THEN [toc |-> <<toc_entry(file.path)>>, blocks |-> <<>>, raised |-> TRUE]
    ELSE IF file.fail = "listLayers"
    THEN [toc |-> <<toc_entry(file.path)>>,
          blocks |-> <<file_info(file.path)>>, raised |-> TRUE]
    ELSE LET ls == layers_blocks(file.path, file.layers, 1)
         IN [toc |-> <<toc_entry(file.path)>>,
             blocks |-> <<file_info(file.path)>> \o ls.blocks,
             raised |-> ls.raised]

\* Lines 18-135: one iteration of the loop over the files: the entry added
\* to contents, the blocks added to data_list, and whether the except
\* clause of line 133 was taken.
file_blocks(file) ==
    IF file.fail \in {"open", "stat"}
    THEN [toc |-> <<>>, blocks |-> <<>>, raised |-> TRUE]
    ELSE IF file.fail = "listLayers"
    THEN [toc |-> <<toc_entry(file.path)>>,
          blocks |-> <<file_info(file.path)>>, raised |-> TRUE]
    ELSE LET ls == layers_blocks(file.path, file.layers, 1)
         IN [toc |-> <<toc_entry(file.path)>>,
             blocks |-> <<file_info(file.path)>> \o ls.blocks,
             raised |-> ls.raised]

\* What `for data in x: md_file.write(data)` writes: the items of a list one
\* after the other; the items of a string are its characters.
WriteEach(xs) == Flatten(xs)
CharsOf(str) == [i \in 1..Len(str) |-> <<str[i]>>]

Header(current_time) ==
    <<Ch("# Layer Metadata Report", 0, 0), NL,
      Ch("**Generated:**", current_time, 0), NL,
      Ch("**Script Version:** 1.0", 0, 0), NL,
      Ch("**Author:**", 0, 0), NL,
      Ch("**Source Directory:**", 0, 0), NL,
      Ch("---", 0, 0), NL>>

Rule == <<Ch("---", 0, 0), NL>>

Footer(current_time) ==
    <<NL, Ch("---", 0, 0), NL,
      Ch("**End of Report**", 0, 0), NL,
      Ch("Report completed at:", current_time, 0), NL>>

\* write_metadata_to_file reading the clock again for the footer, a second
\* later than for the header.
write_metadata_second_reading(dl, current_time) ==
    LET upToRule == Header(current_time) \o WriteEach(dl[1]) \o Rule
    IN IF Len(dl) < 2
       THEN [text |-> upToRule, raised |-> TRUE]
       ELSE [text |-> upToRule \o WriteEach(CharsOf(dl[2]))
                        \o Footer(current_time + 1),
             raised |-> FALSE]

\* write_metadata_to_file, lines 142-162, for the time datetime.now() gave:
\* the text the file holds when the function ends, and whether it ended by
\* the IndexError of data_list[1].  Python's data_list[0] is dl[1] here.
write_metadata_to_file(dl, current_time) ==
    LET upToRule == Header(current_time) \o WriteEach(dl[1]) \o Rule
    IN IF Len(dl) < 2
       THEN [text |-> upToRule, raised |-> TRUE]
       ELSE [text |-> upToRule \o WriteEach(CharsOf(dl[2]))
                        \o Footer(current_time),
             raised |-> FALSE]

NoFile == [exists |-> FALSE, text |-> <<>>]

RepUnchanged == UNCHANGED invVars

\* main, lines 166-172, and the start of extract_layer_metadata, lines 9-15.
RepMainStart ==
    /\ rpc = "start"
    /\ \E found \in GlobResults :
          /\ lyrx_files' = found
          /\ IF found = <<>>
             THEN /\ rpc' = "done"
                  /\ rconsole' = Append(rconsole,
                                        Msg("No .lyrx files found in", None))
                  /\ UNCHANGED <<data_list, contents>>
             ELSE /\ rpc' = "extract"
                  /\ rconsole' = Append(rconsole,
                                        Msg("Found layer files to process", None))
                  /\ data_list' = <<>>
                  /\ contents' = <<contents_header>>
    /\ UNCHANGED <<seen, idx, primary, admin, clock>>
    /\ RepUnchanged

\* Lines 17-135: the next file of the loop.
ProcessFile ==
    /\ rpc = "extract"
    /\ idx <= Len(lyrx_files)
    /\ \E v \in FileVariants(MaxLayers - LayersIn(seen)) :
          LET file == [path |-> lyrx_files[idx], fail |-> v.fail,
                       layers |-> v.layers]
              res == file_blocks(file)
          IN /\ seen' = Append(seen, file)
             /\ data_list' = data_list \o res.blocks
             /\ contents' = contents \o res.toc
             /\ rconsole' = IF res.raised
                            THEN Append(rconsole, Msg("Error processing", <<idx>>))
                            ELSE rconsole
    /\ idx' = idx + 1
    /\ UNCHANGED <<rpc, lyrx_files, primary, admin, clock>>
    /\ RepUnchanged

\* Lines 137-138 and 175-179: data_list.insert(0, contents) and the return.
ExtractReturn ==
    /\ rpc = "extract"
    /\ idx > Len(lyrx_files)
    /\ data_list' = <<contents>> \o data_list
    /\ rpc' = "write_primary"
    /\ UNCHANGED <<lyrx_files, seen, idx, contents, primary, admin, clock,
                   rconsole>>
    /\ RepUnchanged

\* Line 182: the primary report, at whatever the clock reads then.
WritePrimary ==
    /\ rpc = "write_primary"
    /\ \E now \in clock..MaxClock :
          LET res == write_metadata_to_file(data_list, now)
          IN /\ clock' = now
             /\ primary' = [exists |-> TRUE, text |-> res.text]
             /\ rpc' = IF res.raised THEN "raised" ELSE "write_admin"
    /\ UNCHANGED <<lyrx_files, seen, idx, data_list, contents, admin, rconsole>>
    /\ RepUnchanged

\* Lines 183-185: the administrative copy, at whatever the clock reads then.
WriteAdmin ==
    /\ rpc = "write_admin"
    /\ \E now \in clock..MaxClock :
          LET res == write_metadata_to_file(data_list, now)
          IN /\ clock' = now
             /\ admin' = [exists |-> TRUE, text |-> res.text]
             /\ rpc' = IF res.raised THEN "raised" ELSE "done"
             /\ rconsole' = IF res.raised THEN rconsole
                            ELSE Append(rconsole, Msg("Metadata written to:", None))
    /\ UNCHANGED <<lyrx_files, seen, idx, data_list, contents, primary>>
    /\ RepUnchanged

RepInit ==
    /\ rpc = "start"
    /\ lyrx_files = <<>>
    /\ seen = <<>>
    /\ idx = 1
    /\ data_list = <<>>
    /\ contents = <<>>
    /\ primary = NoFile
    /\ admin = NoFile
    /\ clock = 0
    /\ rconsole = <<>>
    /\ InvStart

RepNext ==
    \/ RepMainStart
    \/ ProcessFile
    \/ ExtractReturn
    \/ WritePrimary
    \/ WriteAdmin

RepSpec == RepInit /\ [][RepNext]_vars

\* ------------------------------------------- claims: geodatabase_catalog.py

InventoryReturned == ipc \in {"returned", "done"}

KeyOf(r) == [GDB_Name |-> r.GDB_Name, GDB_Path |-> r.GDB_Path,
             Feature_Dataset |-> r.Feature_Dataset,
             Dataset_Name |-> r.Dataset_Name,
             Dataset_Path |-> r.Dataset_Path,
             Dataset_Type |-> r.Dataset_Type]

ListedKeys(g, base, f, names, type) ==
    [i \in 1..Len(names) |->
        [GDB_Name |-> g.name, GDB_Path |-> g.path, Feature_Dataset |-> f,
         Dataset_Name |-> names[i], Dataset_Path |-> Join(base, names[i]),
         Dataset_Type |-> type]]

\* The datasets one geodatabase holds, in the order the scan lists them.
DatasetsOf(g) ==
    ListedKeys(g, g.path, None, g.top, "FeatureClass")
    \o Flatten([i \in 1..Len(g.fds) |->
                  ListedKeys(g, Join(g.path, g.fds[i].name),
                             Some(g.fds[i].name), g.fds[i].fcs, "FeatureClass")])
    \o ListedKeys(g, g.path, None, g.tables, "Table")
    \o ListedKeys(g, g.path, None, g.rasters, "RasterDataset")

DatasetsOfTree == Flatten([i \in 1..Len(tree) |-> DatasetsOf(tree[i])])

IsFourRowExample(g) ==
    /\ Len(g.top) = 1
    /\ Len(g.fds) = 1
    /\ Len(g.fds[1].fcs) = 1
    /\ Len(g.tables) = 1
    /\ Len(g.rasters) = 1

\* C2: in the inventory, no failure while describing a single dataset (the
\* describe query, the row-count query or the spatial-reference query
\* raising) aborts the scan: every dataset asked about gets its record and
\* inventory_geodatabases never ends by an exception.
C2_EveryFailureIsCaught ==
    /\ ipc # "raised"
    /\ Len(records) = Len(described)
    /\ \A i \in 1..Len(described) : records[i].Dataset_Path = described[i].path

\* C5: inventory_geodatabases returns exactly one record per dataset of every
\* geodatabase found, in listing order, none for a geodatabase without
\* datasets, and Feature_Dataset holds the feature dataset's name exactly
\* for the feature classes listed inside a feature dataset.
C5_OneRecordPerDataset ==
    InventoryReturned =>
        /\ [i \in 1..Len(records) |-> KeyOf(records[i])] = DatasetsOfTree
        /\ \A i \in 1..Len(records) :
              (records[i].Feature_Dataset # None)
                  <=> (Len(records[i].Dataset_Path)
                          = Len(records[i].GDB_Path) + 2)

C5_Witness ==
    /\ ipc = "returned"
    /\ Len(tree) = 1
    /\ IsFourRowExample(tree[1])
    /\ Len(records) = 4
    /\ records[2].Feature_Dataset # None

\* C7: a row-count query that raises for a feature class or a table leaves
\* a record with an empty Feature_Count and every other field as usual,
\* and does not end the scan (only a Describe that raises does);
\* Feature_Count is empty too for what is neither feature class nor table.
C7_CountFailureLeavesEmptyCount ==
    /\ ipc = "raised" =>
          /\ Len(described) = Len(records) + 1
          /\ described[Len(described)].o.describe = "raises"
    /\ ipc # "raised" => Len(described) = Len(records)
    /\ \A i \in 1..Len(records) :
          LET r == records[i]
              d == described[i]
          IN /\ r.Dataset_Path = d.path
             /\ r.Dataset_Name = d.path[Len(d.path)]
             /\ r.Dataset_Type = (CASE d.kind = "fc" -> "FeatureClass"
                                    [] d.kind = "table" -> "Table"
                                    [] OTHER -> "RasterDataset")
             /\ (r.Geometry_Type # None) <=> (d.kind = "fc")
             /\ (r.Spatial_Reference # None)
                   <=> (d.kind \in {"fc", "raster"} /\ d.o.sr = "ok")
             /\ (r.Feature_Count # None)
                   <=> (d.kind \in {"fc", "table"} /\ d.o.count = "ok")

C7_Witness ==
    /\ ipc = "returned"
    /\ \E i \in 1..Len(records) :
          /\ i < Len(records)
          /\ described[i].o.count = "raises"
          /\ records[i].Feature_Count = None
          /\ records[i].Spatial_Reference # None

\* C8: the spreadsheet is written only when at least one record exists; a
\* run that finds no dataset says so and ends without writing it.
C8_NoDatasetsNoFile ==
    /\ excel.written => (ipc = "done" /\ records # <<>>)
    /\ (ipc = "done" /\ records = <<>>) =>
          /\ ~excel.written
          /\ console[Len(console)] = Msg("No datasets found.", None)
    /\ (ipc = "done" /\ records # <<>>) => excel.written

C8_Witness ==
    /\ ipc = "done"
    /\ records = <<>>
    /\ tree # <<>>
    /\ ~excel.written

\* C9: every listing call runs with the workspace at the path it lists (the
\* geodatabase, or the feature dataset for its feature classes), the
\* workspace is back at the geodatabase after each feature dataset, and it
\* is cleared after each geodatabase, so it is None once
\* inventory_geodatabases has stopped running.
C9_WorkspaceSequenced ==
    /\ \A i \in 1..Len(calls) : calls[i].ws = calls[i].at
    /\ ipc \in {"top", "fds", "rasters"} => workspace = gdb.path
    /\ ipc = "nested" => workspace = Join(gdb.path, Head(fdsTodo))
    /\ ipc \in {"walk", "returned", "done", "raised"} => workspace = None

\* C6 (as amended): the rows main writes are a permutation of the records
\* inventory_geodatabases returned, ascending by geodatabase name, then
\* feature-dataset name, then dataset name, where within one geodatabase
\* name the rows with no feature dataset come after all rows that have one.
SameRows(a, b) ==
    /\ Len(a) = Len(b)
    /\ \A x \in Range(a) \cup Range(b) :
          Cardinality({i \in 1..Len(a) : a[i] = x})
              = Cardinality({i \in 1..Len(b) : b[i] = x})

SortKey(r) == <<r.GDB_Name, r.Feature_Dataset, r.Dataset_Name>>

\* k precedes m with a missing feature dataset last.
PrecedesEmptyLast(k, m) ==
    \/ k[1] < m[1]
    \/ k[1] = m[1] /\ k[2] # None /\ m[2] = None
    \/ k[1] = m[1] /\ k[2] # None /\ m[2] # None /\ k[2][1] < m[2][1]
    \/ k[1] = m[1] /\ k[2] = m[2] /\ k[3] < m[3]

\* k precedes m with a missing feature dataset as the empty name, first.
PrecedesEmptyFirst(k, m) ==
    \/ k[1] < m[1]
    \/ k[1] = m[1] /\ k[2] = None /\ m[2] # None
    \/ k[1] = m[1] /\ k[2] # None /\ m[2] # None /\ k[2][1] < m[2][1]
    \/ k[1] = m[1] /\ k[2] = m[2] /\ k[3] < m[3]

C6_SortedEmptyLast ==
    (ipc = "done" /\ records # <<>>) =>
        /\ excel.written
        /\ SameRows(excel.rows, records)
        /\ \A i, j \in 1..Len(excel.rows) :
              i < j => ~PrecedesEmptyLast(SortKey(excel.rows[j]),
                                          SortKey(excel.rows[i]))

C6_Witness ==
    /\ ipc = "done"
    /\ excel.written
    /\ excel.rows # records
    /\ \E i, j \in 1..Len(excel.rows) :
          /\ i < j
          /\ excel.rows[i].GDB_Name = excel.rows[j].GDB_Name
          /\ excel.rows[i].Feature_Dataset # None
          /\ excel.rows[j].Feature_Dataset = None

\* C6 (as stated): the rows are a permutation of the records and ascending
\* by (geodatabase name, feature-dataset name, dataset name), an empty
\* feature-dataset name being the least.
C6_SortedAscending ==
    (ipc = "done" /\ records # <<>>) =>
        /\ excel.written
        /\ SameRows(excel.rows, records)
        /\ \A i, j \in 1..Len(excel.rows) :
              i < j => ~PrecedesEmptyFirst(SortKey(excel.rows[j]),
                                           SortKey(excel.rows[i]))

\* ------------------------------------------------ claims: layer_metadata.py

AfterExtract == rpc \in {"write_primary", "write_admin", "raised", "done"}

\* The content blocks extract_layer_metadata has appended.
Blocks ==
    IF rpc = "extract" THEN data_list
    ELSE IF AfterExtract /\ data_list # <<>> THEN Tail(data_list)
    ELSE <<>>

FullReport(t) ==
    Header(t) \o Flatten(contents) \o Rule \o Flatten(Blocks) \o Footer(t)

IsFullReport(text) == \E t \in 0..MaxClock : text = FullReport(t)

EndsWithFooter(text) ==
    /\ Len(text) > Len(Footer(0))
    /\ \E t \in 0..MaxClock :
          SubSeq(text, Len(text) - Len(Footer(t)) + 1, Len(text)) = Footer(t)

\* C1: each file write_metadata_to_file has written is the header, the table
\* of contents, every content block appended by extract_layer_metadata in
\* append order, and the footer: no appended block is missing.
C1_EveryBlockWritten ==
    /\ rpc \in {"write_admin", "done"} /\ primary.exists
          => IsFullReport(primary.text)
    /\ rpc = "done" /\ admin.exists => IsFullReport(admin.text)

\* C3: a file whose opening raises adds no table-of-contents entry and no
\* block and leaves what was collected as it was; the files after it are
\* still processed; the table of contents has one entry per file that got
\* a File Information block, in the same order.
IsPrefix(a, b) == Len(a) <= Len(b) /\ SubSeq(b, 1, Len(a)) = a

TocFiles == [i \in 1..(Len(contents) - 1) |-> contents[i + 1][1].f]

InfoBlocks == SelectSeq(Blocks, LAMBDA b : b[1].c = "### File Information:")

InfoFiles == [i \in 1..Len(InfoBlocks) |-> InfoBlocks[i][1].f]

Opened(file) == file.fail \notin {"open", "stat"}

OpenedSoFar ==
    LET opened == SelectSeq(seen, Opened)
    IN [i \in 1..Len(opened) |-> opened[i].path]

C3_State ==
    (rpc = "extract" \/ (AfterExtract /\ lyrx_files # <<>>)) =>
        /\ TocFiles = InfoFiles
        /\ TocFiles = OpenedSoFar
        /\ Len(seen) = idx - 1
        /\ \A i \in 1..(idx - 1) :
              /\ seen[i].path = lyrx_files[i]
              /\ ~Opened(seen[i]) =>
                    \A b \in Range(Blocks) : \A k \in 1..Len(b) :
                        b[k].f # lyrx_files[i]
        /\ AfterExtract => idx = Len(lyrx_files) + 1

C3_Step ==
    (rpc = "extract" /\ rpc' = "extract") =>
        /\ idx' = idx + 1
        /\ IsPrefix(data_list, data_list')
        /\ IsPrefix(contents, contents')
        /\ ~Opened(seen'[idx]) =>
              (data_list' = data_list /\ contents' = contents)

C3_FailedOpenSkipsOnlyThatFile == []C3_State /\ [][C3_Step]_vars

C3_Witness ==
    /\ rpc = "write_primary"
    /\ Len(lyrx_files) = 2
    /\ seen[1].fail = "open"
    /\ seen[2].fail = "none"
    /\ Len(seen[2].layers) = 1
    /\ TocFiles = <<2>>
    /\ Len(Blocks) > 1

\* C4 (as amended): in a completed run the two files hold the same table of
\* contents and blocks; the header and footer of each carry the one clock
\* reading of that file's own write call, the administrative copy's no
\* earlier than the primary's; the files are byte-identical when the two
\* readings are equal.
TimeLines == {"**Generated:**", "Report completed at:"}

Untimed(text) ==
    [i \in 1..Len(text) |->
        IF text[i].c \in TimeLines THEN Ch(text[i].c, 0, 0) ELSE text[i]]

Stamps(text) == {text[i].f : i \in {k \in 1..Len(text) : text[k].c \in TimeLines}}

C10_BothReportsAlwaysWritten ==
    lyrx_files # <<>> =>
        /\ rpc # "raised"
        /\ primary.exists => EndsWithFooter(primary.text)
        /\ rpc = "done" =>
              /\ primary.exists /\ EndsWithFooter(primary.text)
              /\ admin.exists /\ EndsWithFooter(admin.text)

====
